---- MODULE Spec2Model ----
(***************************************************************************)
(* NEGEMMMatrixMultiplyKernel: Output = alpha * A x B.                     *)
(*                                                                         *)
(* The kernel object (its five fields), the three kernel bodies and the    *)
(* tile loop they run over a window.  A call of run is modelled as the     *)
(* call (checks, dispatch, window set-up), then one step per iteration of  *)
(* execute_window_loop, so that workers interleave tile by tile.           *)
(*                                                                         *)
(* Arithmetic is exact: lanes hold integers, and alpha and the stored      *)
(* Output are fixed-point numbers with AlphaOne units per 1.0.  Rounding   *)
(* of float and half products is not modelled.                             *)
(***************************************************************************)
EXTENDS Integers, Sequences, FiniteSets, TLC

VARIABLES
    layout,       \* how the caller prepared A and B: "plain" or "reshaped"
    dimR,         \* rows of the logical A and of Output
    dimK,         \* columns of the logical A = rows of the logical B
    dimN,         \* columns of the logical B and of Output
    fam,          \* which input data set A and B hold
    enable_fp16,  \* whether the build defines ARM_COMPUTE_ENABLE_FP16
    nthreads,     \* number of workers the scheduler splits a run over
    _input0,      \* NEGEMMMatrixMultiplyKernel::_input0
    _input1,      \* NEGEMMMatrixMultiplyKernel::_input1
    _output,      \* NEGEMMMatrixMultiplyKernel::_output
    _alpha,       \* NEGEMMMatrixMultiplyKernel::_alpha
    _window,      \* IKernel::_window, the canonical window
    cfgRes,       \* outcome of the last configure call
    cfgArgs,      \* arguments of the last configure call
    thr,          \* per thread: where its run call is
    res,          \* per thread: outcome of its last run call
    outMem,       \* the Output buffer, by element offset
    writers,      \* per Output offset: the threads whose run stored to it
    stores,       \* per Output offset: how many times it was stored to
    calls         \* number of calls the callers have made so far

vars == <<layout, dimR, dimK, dimN, fam, enable_fp16, nthreads,
          _input0, _input1, _output, _alpha, _window, cfgRes, cfgArgs,
          thr, res, outMem, writers, stores, calls>>

world == <<layout, dimR, dimK, dimN, fam, enable_fp16, nthreads>>
kernel == <<_input0, _input1, _output, _alpha, _window>>

----------------------------------------------------------------------------
(* Bounds of the model.                                                    *)

\* largest K of the vector-path runs (the main loop takes 4 at a time)
MaxK == 8
\* largest output width of the vector-path runs
MaxN == 33
\* largest K of the matrix-path runs
MaxMatK == 5
\* largest output width of the matrix-path runs
MaxMatN == 17
\* largest number of output rows of the matrix-path runs
MaxMatR == 5
\* largest number of workers
MaxP == 3
\* largest output width of the multi-worker runs
MaxW == 40
\* largest K of the multi-worker runs
MaxParK == 2
\* input data sets are 0..MaxFam
MaxFam == 1
\* largest number of configure and run calls of the unrestricted caller
MaxCalls == 3

----------------------------------------------------------------------------
(* Fixed-point alpha.                                                      *)

\* 1.0f, in fixed-point units
AlphaOne == 204800

Abs(v) == IF v < 0 THEN -v ELSE v

\* std::abs(1.0f - _alpha) > 0.00001f; 0.00001 is 2.048 units
MultiplyAlpha(alpha) == Abs(AlphaOne - alpha) > AlphaOne \div 100000

\* vdupq_n_f16(alpha): float to half, round to nearest; half has 10 fraction bits
DupF16(alpha) ==
    LET q == IF alpha < AlphaOne THEN AlphaOne \div 2048
             ELSE IF alpha < 2 * AlphaOne THEN AlphaOne \div 1024
             ELSE AlphaOne \div 512
    IN  ((alpha + q \div 2) \div q) * q

\* vdupq_n_f32(alpha): alpha is a float already
DupF32(alpha) == alpha

----------------------------------------------------------------------------
(* Integer helpers.                                                        *)

CeilDiv(v, s) == (v + s - 1) \div s
CeilTo(v, s) == CeilDiv(v, s) * s
Max(a, b) == IF a >= b THEN a ELSE b

\* the % of C: the remainder has the sign of the dividend
TruncRem(a, b) == IF a >= 0 THEN a % b ELSE -((-a) % b)

----------------------------------------------------------------------------
(* Tensors.  A tensor argument is its info: data type and the extents of   *)
(* dimension 0 (columns) and dimension 1 (rows); nullptr is Null.          *)

Null == [dt |-> "null", d0 |-> 0, d1 |-> 0]

DataTypes == {"F16", "F32", "U8"}

\* elements per 16-byte block: the W of the 1xW transposition of B
BlockW(dt) == IF dt = "F16" THEN 8 ELSE 4

\* A as the caller hands it over, built from a logical matrix of dimK + dk
\* columns: plain, or interleaved 4 rows at a time
InfoA(dt, dk) ==
    IF layout = "plain"
    THEN [dt |-> dt, d0 |-> dimK + dk, d1 |-> dimR]
    ELSE [dt |-> dt, d0 |-> 4 * (dimK + dk), d1 |-> CeilDiv(dimR, 4)]

\* B as the caller hands it over: plain row-major, or transposed 1xW
InfoB(dt) ==
    IF layout = "plain"
    THEN [dt |-> dt, d0 |-> dimN, d1 |-> dimK]
    ELSE [dt |-> dt, d0 |-> BlockW(dt) * dimK, d1 |-> CeilDiv(dimN, BlockW(dt))]

InfoO(dt) == [dt |-> dt, d0 |-> dimN, d1 |-> dimR]

\* strides_in_bytes()[1] / element size: rows are padded to whole tiles
StrideOf(info) == CeilTo(info.d0, 16)

\* the logical matrices
AVal(i, k) ==
    IF fam = 0 THEN i + k + 1 ELSE ((fam * k + i + 2 * k + fam) % 5) - 2
BVal(k, j) ==
    IF fam = 0 THEN 1 + ((k + j) % 3) ELSE ((3 * k + j + fam) % 7) - 3

\* what padding holds: nothing the kernel may rely on
PadVal == 7 + fam

\* the element of A at an offset from the start of its buffer
ReadA(off) ==
    LET st == StrideOf(_input0)
        row == off \div st
        col == off % st
    IN  IF layout = "plain"
        THEN IF row < dimR /\ col < _input0.d0 THEN AVal(row, col) ELSE PadVal
        ELSE IF col < _input0.d0 /\ 4 * row + (col % 4) < dimR
             THEN AVal(4 * row + (col % 4), col \div 4)
             ELSE PadVal

\* the element of B at an offset from the start of its buffer
ReadB(off) ==
    LET st == StrideOf(_input1)
        row == off \div st
        col == off % st
        w == BlockW(_input1.dt)
    IN  IF layout = "plain"
        THEN IF row < dimK /\ col < dimN THEN BVal(row, col) ELSE PadVal
        ELSE IF col < _input1.d0 /\ col \div w < dimK /\ row * w + (col % w) < dimN
             THEN BVal(col \div w, row * w + (col % w))
             ELSE PadVal

\* the Output buffer: rows padded to whole tiles, 4 rows per row tile
OutStride == CeilTo(dimN, 16)
OutRows == CeilTo(dimR, 4)
OutSize == OutStride * OutRows

----------------------------------------------------------------------------
(* Windows: per dimension (start, end, step), and the thread id and the    *)
(* number of threads the scheduler stamps on a worker's window.            *)

\* the window of a kernel that was constructed and never configured
NullWindow ==
    [xs |-> 0, xe |-> 0, xstep |-> 1, ys |-> 0, ye |-> 0, ystep |-> 1,
     tid |-> 0, nth |-> 1]

\* calculate_max_window(info, Steps(sx, sy)): the whole tensor, whole tiles
CalculateMaxWindow(info, sx, sy) ==
    [xs |-> 0, xe |-> CeilTo(info.d0, sx), xstep |-> sx,
     ys |-> 0, ye |-> CeilTo(info.d1, sy), ystep |-> sy,
     tid |-> 0, nth |-> 1]

\* ARM_COMPUTE_ERROR_ON_UNCONFIGURED_KERNEL: the window is still the empty one
IsUnconfigured == _window.xs = _window.xe

\* ARM_COMPUTE_ERROR_ON_INVALID_SUBWINDOW(full, sub) does not fire
ValidSubwindow(full, sub) ==
    /\ full.xs <= sub.xs /\ sub.xe <= full.xe /\ sub.xstep = full.xstep
    /\ (sub.xs - full.xs) % sub.xstep = 0
    /\ full.ys <= sub.ys /\ sub.ye <= full.ye /\ sub.ystep = full.ystep
    /\ (sub.ys - full.ys) % sub.ystep = 0

\* the window worker id of total gets when the scheduler splits along x
SplitWindowX(full, id, total) ==
    LET per == (((full.xe - full.xs) \div full.xstep) \div total) * full.xstep
        s == full.xs + id * per
    IN  [full EXCEPT !.xs = s,
                     !.xe = IF id # total - 1 THEN s + per ELSE full.xe,
                     !.tid = id, !.nth = total]

\* the window worker id of total gets when the scheduler splits along y
SplitWindowY(full, id, total) ==
    LET per == (((full.ye - full.ys) \div full.ystep) \div total) * full.ystep
        s == full.ys + id * per
    IN  [full EXCEPT !.ys = s,
                     !.ye = IF id # total - 1 THEN s + per ELSE full.ye,
                     !.tid = id, !.nth = total]

----------------------------------------------------------------------------
(* Dispatch.                                                               *)

\* (output->info()->dimension(1) == 1) && (data_type() == DataType::F32)
IsVectorCase(input0, output) == output.d1 = 1 /\ input0.dt = "F32"

\* which kernel body run calls
Body ==
    IF IsVectorCase(_input0, _output) THEN "vector_f32"
    ELSE CASE _input0.dt = "F16" -> "matrix_f16"
           [] _input0.dt = "F32" -> "matrix_f32"
           [] OTHER -> "unsupported"

\* a lane's accumulator as stored by run with the given alpha: times the
\* alpha lanes when multiply_alpha, as it is otherwise
StoreAlways(alpha, acc, alphaLanes) == acc * alphaLanes
Store(alpha, acc, alphaLanes) ==
    IF MultiplyAlpha(alpha) THEN acc * alphaLanes ELSE acc * AlphaOne

----------------------------------------------------------------------------
(* vector_matrix_multiply_f32                                              *)

VecWidthMatrixB == _output.d0
VecInBStride == StrideOf(_input1)
VecNumElemsVecA == _input0.d0

\* the start, were every worker to begin at column 0
VecWindowStartXZero(w) == 0
VecWindowStartX(w) == 16 * w.tid
\* the step, were it not to skip the other workers' tiles
VecWindowStepXOne(w) == 16
VecWindowStepX(w) == 16 * w.nth
\* the end, were it the width rounded up to a whole number of steps
VecWindowEndXCeil(w) == CeilTo(VecWidthMatrixB, VecWindowStepX(w))
\* the end, were the outer remainder not taken
VecWindowEndXPlain(w) ==
    VecWidthMatrixB
    + (VecWindowStepX(w)
       - TruncRem(VecWidthMatrixB - VecWindowStartX(w), VecWindowStepX(w)))
VecWindowEndX(w) ==
    VecWidthMatrixB
    + TruncRem(VecWindowStepX(w)
               - TruncRem(VecWidthMatrixB - VecWindowStartX(w), VecWindowStepX(w)),
               VecWindowStepX(w))

\* win_out: the x range comes from the thread id, y is the single row
VecWinOut(w) ==
    [w EXCEPT !.xs = VecWindowStartX(w), !.xe = VecWindowEndX(w),
              !.xstep = VecWindowStepX(w), !.ys = 0, !.ye = 1, !.ystep = 1]

\* the remainder loop, were it to stop one element early
RECURSIVE VecRemainderLoopShort(_, _, _)
VecRemainderLoopShort(i, c, x) ==
    IF i < VecNumElemsVecA - 1
    THEN ReadA(i) * ReadB(x + c + i * VecInBStride) + VecRemainderLoopShort(i + 1, c, x)
    ELSE 0

\* the remainder loop from i on, for lane c of the tile at column x
RECURSIVE VecRemainderLoop(_, _, _)
VecRemainderLoop(i, c, x) ==
    IF i < VecNumElemsVecA
    THEN ReadA(i) * ReadB(x + c + i * VecInBStride) + VecRemainderLoop(i + 1, c, x)
    ELSE 0

\* the main loop from i on, 4 elements of A per iteration, then the remainder
RECURSIVE VecMainLoop(_, _, _)
VecMainLoop(i, c, x) ==
    IF i <= VecNumElemsVecA - 4
    THEN ReadA(i) * ReadB(x + c + (i + 0) * VecInBStride)
         + ReadA(i + 1) * ReadB(x + c + (i + 1) * VecInBStride)
         + ReadA(i + 2) * ReadB(x + c + (i + 2) * VecInBStride)
         + ReadA(i + 3) * ReadB(x + c + (i + 3) * VecInBStride)
         + VecMainLoop(i + 4, c, x)
    ELSE VecRemainderLoop(i, c, x)

\* the stores of one iteration of the window loop: Output offset -> value
VecTile(alpha, x) ==
    IF x > VecWidthMatrixB
    THEN [o \in {} |-> 0]
    ELSE [o \in x .. x + 15 |->
             Store(alpha, VecMainLoop(0, o - x, x), DupF32(alpha))]

----------------------------------------------------------------------------
(* matrix_matrix_multiply_f32                                              *)

\* byte offset of ina, in elements: row window.y / 4 of the interleaved A
MatAOffset(w, y) ==
    ((w.ys \div 4) + (y - w.ys) \div w.ystep) * StrideOf(_input0)

\* offset of inb: win_b starts at x / 4 and steps 4 rows per iteration
Mat32BOffset(w, x) ==
    (w.xs \div 4) + ((x - w.xs) \div w.xstep) * (4 * StrideOf(_input1))

\* the loop over K, were it to advance the A pointer by one lane only
RECURSIVE Mat32LoopSlowA(_, _, _, _, _)
Mat32LoopSlowA(k, a, b, r, lane) ==
    IF k < _input1.d0
    THEN ReadA(a + r) * ReadB(b + lane) + Mat32LoopSlowA(k + 4, a + 1, b + 4, r, lane)
    ELSE 0

\* for(k = 0; k < num_elems_matrix_b_x; k += 4): one A lane times one B lane
RECURSIVE Mat32Loop(_, _, _, _, _)
Mat32Loop(k, a, b, r, lane) ==
    IF k < _input1.d0
    THEN ReadA(a + r) * ReadB(b + lane) + Mat32Loop(k + 4, a + 4, b + 4, r, lane)
    ELSE 0

\* row r (0..3) of the tile goes to out + r * out_stride1, block s to + 4 * s
Mat32OutOffset(x, y, r, s, lane) ==
    y * StrideOf(_output) + x + r * StrideOf(_output) + 4 * s + lane

Mat32Cells == (0 .. 3) \X (0 .. 3) \X (0 .. 3)

Mat32Tile(alpha, w, x, y) ==
    LET a0 == MatAOffset(w, y)
        b0 == Mat32BOffset(w, x)
        cellOf(o) == CHOOSE c \in Mat32Cells :
                         Mat32OutOffset(x, y, c[1], c[2], c[3]) = o
        offs == {Mat32OutOffset(x, y, c[1], c[2], c[3]) : c \in Mat32Cells}
    IN  [o \in offs |->
            LET c == cellOf(o)
            IN  Store(alpha,
                      Mat32Loop(0, a0, b0 + c[2] * StrideOf(_input1), c[1], c[3]),
                      DupF32(alpha))]

----------------------------------------------------------------------------
(* matrix_matrix_multiply_f16                                              *)

\* offset of inb: win_b starts at x / 8 and steps one row per iteration
Mat16BOffset(w, x) ==
    (w.xs \div 8) + ((x - w.xs) \div w.xstep) * StrideOf(_input1)

\* num_it = ((input1->info()->dimension(0)) >> 2) >> 3
Mat16NumIt == (_input1.d0 \div 4) \div 8

\* for(k = num_it; k > 0; mtx_a0 += 16, mtx_b0 += 32, --k)
RECURSIVE Mat16Loop(_, _, _, _, _)
Mat16Loop(k, a, b, r, lane) ==
    IF k > 0
    THEN ReadA(a + r) * ReadB(b + lane)
         + ReadA(a + 4 + r) * ReadB(b + 8 + lane)
         + ReadA(a + 8 + r) * ReadB(b + 16 + lane)
         + ReadA(a + 12 + r) * ReadB(b + 24 + lane)
         + Mat16Loop(k - 1, a + 16, b + 32, r, lane)
    ELSE 0

\* vst1q_f16(mtx_out + r * out_stride, c.val[r]): 8 lanes per row
Mat16OutOffset(x, y, r, lane) ==
    y * StrideOf(_output) + x + r * StrideOf(_output) + lane

Mat16Cells == (0 .. 3) \X (0 .. 7)

Mat16Tile(alpha, w, x, y) ==
    LET a0 == MatAOffset(w, y)
        b0 == Mat16BOffset(w, x)
        cellOf(o) == CHOOSE c \in Mat16Cells : Mat16OutOffset(x, y, c[1], c[2]) = o
        offs == {Mat16OutOffset(x, y, c[1], c[2]) : c \in Mat16Cells}
    IN  [o \in offs |->
            LET c == cellOf(o)
            IN  Store(alpha, Mat16Loop(Mat16NumIt, a0, b0, c[1], c[2]),
                      DupF16(alpha))]


----------------------------------------------------------------------------
(* The kernel object and its callers.                                      *)

Threads == 0 .. MaxP - 1

IdleThread == [pc |-> "idle", w |-> NullWindow, x |-> 0, y |-> 0]

AllIdle == \A t \in Threads : thr[t].pc = "idle"

\* NEGEMMMatrixMultiplyKernel(): null tensors, alpha 1, the empty window;
\* the Output buffer holds nothing yet
Constructed ==
    /\ _input0 = Null /\ _input1 = Null /\ _output = Null
    /\ _alpha = AlphaOne
    /\ _window = NullWindow
    /\ cfgRes = "none"
    /\ cfgArgs = <<Null, Null, Null, AlphaOne>>
    /\ thr = [t \in Threads |-> IdleThread]
    /\ res = [t \in Threads |-> "none"]
    /\ outMem = [o \in 0 .. OutSize - 1 |-> -1]
    /\ writers = [o \in 0 .. OutSize - 1 |-> {}]
    /\ stores = [o \in 0 .. OutSize - 1 |-> 0]
    /\ calls = 0

\* ARM_COMPUTE_ERROR_ON_DATA_TYPE_CHANNEL_NOT_IN(t, 1, F16, F32), three times,
\* and ARM_COMPUTE_ERROR_ON_MISMATCHING_DATA_TYPES
DataTypesAccepted(input0, input1, output) ==
    /\ input0.dt \in {"F16", "F32"}
    /\ input1.dt \in {"F16", "F32"}
    /\ output.dt \in {"F16", "F32"}
    /\ input0.dt = input1.dt /\ input0.dt = output.dt

\* the dimension check, were it made on the vector path only
DimensionsAcceptedWideOnly(input0, input1, output) ==
    (output.d1 = 1 /\ input0.dt = "F32") => input0.d0 = input1.d1

\* if(output->info()->dimension(1) == 1) ERROR_ON(input0 dim 0 != input1 dim 1)
DimensionsAccepted(input0, input1, output) ==
    output.d1 = 1 => input0.d0 = input1.d1

\* the x step, were the F16 case to take 32 columns per iteration
NumElemsProcessedPerIterationX32(input0, output) ==
    IF IsVectorCase(input0, output) THEN 16
    ELSE CASE input0.dt = "F16" -> 32
           [] input0.dt = "F32" -> 16
           [] OTHER -> 0

\* num_elems_processed_per_iteration_x; 0 when no case of the switch applies
NumElemsProcessedPerIterationX(input0, output) ==
    IF IsVectorCase(input0, output) THEN 16
    ELSE CASE input0.dt = "F16" -> 8
           [] input0.dt = "F32" -> 16
           [] OTHER -> 0

\* the y step of the window: Steps(x) on the vector path, Steps(x, 4) otherwise
NumElemsProcessedPerIterationY(input0, output) ==
    IF IsVectorCase(input0, output) THEN 1 ELSE 4

Configure(input0, input1, output, alpha) ==
    /\ AllIdle
    /\ cfgArgs' = <<input0, input1, output, alpha>>
    /\ IF ~(DataTypesAccepted(input0, input1, output)
            /\ DimensionsAccepted(input0, input1, output))
       THEN /\ cfgRes' = "ConfigurationError"
            /\ UNCHANGED kernel
       ELSE /\ _input0' = input0
            /\ _input1' = input1
            /\ _output' = output
            /\ _alpha' = alpha
            /\ IF NumElemsProcessedPerIterationX(input0, output) = 0
               THEN /\ cfgRes' = "UnsupportedDataType"
                    /\ UNCHANGED _window
               ELSE /\ cfgRes' = "ok"
                    /\ _window' = CalculateMaxWindow(output,
                                      NumElemsProcessedPerIterationX(input0, output),
                                      NumElemsProcessedPerIterationY(input0, output))
    /\ UNCHANGED <<world, thr, res, outMem, writers, stores>>

\* the loop window, were the matrix bodies to iterate the canonical window
LoopWindowWhole(w) == IF Body = "vector_f32" THEN VecWinOut(w) ELSE _window

\* the window the loop of the dispatched body iterates
LoopWindow(w) == IF Body = "vector_f32" THEN VecWinOut(w) ELSE w

\* the stores of the loop body at (x, y), run with the given alpha
TileStores(alpha, w, x, y) ==
    CASE Body = "vector_f32" -> VecTile(alpha, x)
      [] Body = "matrix_f32" -> Mat32Tile(alpha, w, x, y)
      [] Body = "matrix_f16" -> Mat16Tile(alpha, w, x, y)

\* run(window), were the sub-window check to come first
RunEnterSubwindowFirst(t, w) ==
    /\ thr[t].pc = "idle"
    /\ IF ~ValidSubwindow(_window, w)
       THEN /\ res' = [res EXCEPT ![t] = "InvalidSubwindowError"]
            /\ UNCHANGED thr
       ELSE IF IsUnconfigured
       THEN /\ res' = [res EXCEPT ![t] = "UnconfiguredKernelError"]
            /\ UNCHANGED thr
       ELSE IF Body = "unsupported"
       THEN /\ res' = [res EXCEPT ![t] = "UnsupportedDataType"]
            /\ UNCHANGED thr
       ELSE IF Body = "matrix_f16" /\ ~enable_fp16
       THEN /\ res' = [res EXCEPT ![t] = "NotImplemented"]
            /\ UNCHANGED thr
       ELSE IF LoopWindow(w).xs >= LoopWindow(w).xe \/ LoopWindow(w).ys >= LoopWindow(w).ye
       THEN /\ res' = [res EXCEPT ![t] = "ok"]
            /\ UNCHANGED thr
       ELSE /\ res' = [res EXCEPT ![t] = "running"]
            /\ thr' = [thr EXCEPT ![t] = [pc |-> "loop", w |-> w,
                                          x |-> LoopWindow(w).xs,
                                          y |-> LoopWindow(w).ys]]
    /\ UNCHANGED <<world, kernel, cfgRes, cfgArgs, outMem, writers, stores>>

\* run(window), were it to make no sub-window check
RunEnterAnyWindow(t, w) ==
    /\ thr[t].pc = "idle"
    /\ IF IsUnconfigured
       THEN /\ res' = [res EXCEPT ![t] = "UnconfiguredKernelError"]
            /\ UNCHANGED thr
       ELSE IF Body = "unsupported"
       THEN /\ res' = [res EXCEPT ![t] = "UnsupportedDataType"]
            /\ UNCHANGED thr
       ELSE IF Body = "matrix_f16" /\ ~enable_fp16
       THEN /\ res' = [res EXCEPT ![t] = "NotImplemented"]
            /\ UNCHANGED thr
       ELSE IF LoopWindow(w).xs >= LoopWindow(w).xe \/ LoopWindow(w).ys >= LoopWindow(w).ye
       THEN /\ res' = [res EXCEPT ![t] = "ok"]
            /\ UNCHANGED thr
       ELSE /\ res' = [res EXCEPT ![t] = "running"]
            /\ thr' = [thr EXCEPT ![t] = [pc |-> "loop", w |-> w,
                                          x |-> LoopWindow(w).xs,
                                          y |-> LoopWindow(w).ys]]
    /\ UNCHANGED <<world, kernel, cfgRes, cfgArgs, outMem, writers, stores>>

\* run(window), up to the first iteration of the window loop
RunEnter(t, w) ==
    /\ thr[t].pc = "idle"
    /\ IF IsUnconfigured
       THEN /\ res' = [res EXCEPT ![t] = "UnconfiguredKernelError"]
            /\ UNCHANGED thr
       ELSE IF ~ValidSubwindow(_window, w)
       THEN /\ res' = [res EXCEPT ![t] = "InvalidSubwindowError"]
            /\ UNCHANGED thr
       ELSE IF Body = "unsupported"
       THEN /\ res' = [res EXCEPT ![t] = "UnsupportedDataType"]
            /\ UNCHANGED thr
       ELSE IF Body = "matrix_f16" /\ ~enable_fp16
       THEN /\ res' = [res EXCEPT ![t] = "NotImplemented"]
            /\ UNCHANGED thr
       ELSE IF LoopWindow(w).xs >= LoopWindow(w).xe \/ LoopWindow(w).ys >= LoopWindow(w).ye
       THEN /\ res' = [res EXCEPT ![t] = "ok"]
            /\ UNCHANGED thr
       ELSE /\ res' = [res EXCEPT ![t] = "running"]
            /\ thr' = [thr EXCEPT ![t] = [pc |-> "loop", w |-> w,
                                          x |-> LoopWindow(w).xs,
                                          y |-> LoopWindow(w).ys]]
    /\ UNCHANGED <<world, kernel, cfgRes, cfgArgs, outMem, writers, stores>>

\* one iteration of execute_window_loop: the body at (x, y), then the step
Tile(t) ==
    /\ thr[t].pc = "loop"
    /\ LET w == thr[t].w
           lw == LoopWindow(w)
           x == thr[t].x
           y == thr[t].y
       IN  /\ \E st \in {TileStores(_alpha, w, x, y)} :
                  /\ outMem' = [o \in DOMAIN outMem |->
                                   IF o \in DOMAIN st THEN st[o] ELSE outMem[o]]
                  /\ writers' = [o \in DOMAIN writers |->
                                   IF o \in DOMAIN st THEN writers[o] \cup {t}
                                   ELSE writers[o]]
                  /\ stores' = [o \in DOMAIN stores |->
                                   IF o \in DOMAIN st THEN stores[o] + 1
                                   ELSE stores[o]]
           /\ IF x + lw.xstep < lw.xe
              THEN /\ thr' = [thr EXCEPT ![t].x = x + lw.xstep]
                   /\ UNCHANGED res
              ELSE IF y + lw.ystep < lw.ye
              THEN /\ thr' = [thr EXCEPT ![t].x = lw.xs, ![t].y = y + lw.ystep]
                   /\ UNCHANGED res
              ELSE /\ thr' = [thr EXCEPT ![t] = IdleThread]
                   /\ res' = [res EXCEPT ![t] = "ok"]
    /\ UNCHANGED <<world, kernel, cfgRes, cfgArgs, calls>>

TileStep == \E t \in Threads : Tile(t)

----------------------------------------------------------------------------
(* Callers.                                                                *)

\* alpha values: 1, inside and just outside the 1e-5 band around 1, and 2
Alphas == {AlphaOne, AlphaOne + 1, AlphaOne + 3, 2 * AlphaOne}
DataAlphas == {AlphaOne, 2 * AlphaOne}

\* configure once, with tensors of one supported type and matching extents
ConfigureOnce(dt, alphas) ==
    /\ cfgRes = "none"
    /\ UNCHANGED calls
    /\ \E a \in alphas : Configure(InfoA(dt, 0), InfoB(dt), InfoO(dt), a)

\* one run over the whole canonical window
RunWhole ==
    /\ cfgRes = "ok"
    /\ calls = 0
    /\ calls' = 1
    /\ RunEnter(0, _window)

\* the scheduler: worker t of nthreads runs once, on its part of the window
Dispatch(t) ==
    /\ cfgRes = "ok"
    /\ t < nthreads
    /\ res[t] = "none"
    /\ calls' = calls + 1
    /\ RunEnter(t, SplitWindowX(_window, t, nthreads))

----------------------------------------------------------------------------
(* The vector path alone: Output 1 x N, every K up to MaxK, one worker.    *)

InitVec ==
    /\ layout = "plain"
    /\ dimR = 1
    /\ dimK \in 1 .. MaxK
    /\ dimN \in 1 .. MaxN
    /\ fam \in 0 .. MaxFam
    /\ enable_fp16 = TRUE
    /\ nthreads = 1
    /\ Constructed

ConfigureVec == ConfigureOnce("F32", DataAlphas)

NextVec == ConfigureVec \/ RunWhole \/ TileStep

SpecVec == InitVec /\ [][NextVec]_vars


\* C1: on the vector path every output column j < N that was stored holds
\* alpha * sum over k < K of A[k] * B[k][j], and once run has returned every
\* such column was stored exactly once.
RECURSIVE RefDot(_, _, _)
RefDot(i, j, k) ==
    IF k = 0 THEN 0 ELSE RefDot(i, j, k - 1) + AVal(i, k - 1) * BVal(k - 1, j)

C1_VectorOutputIsAlphaTimesDotProduct ==
    \A j \in 0 .. dimN - 1 :
        /\ stores[j] > 0 => outMem[j] = _alpha * RefDot(0, j, dimK)
        /\ res[0] = "ok" => stores[j] = 1

\* a run with a main-loop pass and a 3-element remainder, two tiles, alpha 2
C1_Witness ==
    /\ res[0] = "ok" /\ Body = "vector_f32"
    /\ dimK = 7 /\ dimN = 17 /\ _alpha = 2 * AlphaOne
    /\ stores[16] = 1

----------------------------------------------------------------------------
(* The wide matrix path alone: A interleaved, B transposed 1x4, the window *)
(* whole or split by rows between two workers.                             *)

\* the scheduler: worker t of nthreads runs once, on its rows of the window
DispatchRows(t) ==
    /\ cfgRes = "ok"
    /\ t < nthreads
    /\ res[t] = "none"
    /\ calls' = calls + 1
    /\ RunEnter(t, SplitWindowY(_window, t, nthreads))

InitMat32 ==
    /\ layout = "reshaped"
    /\ dimR \in 2 .. MaxMatR
    /\ dimK \in 1 .. MaxMatK
    /\ dimN \in {1} \cup (MaxMatN - 2 .. MaxMatN)
    /\ fam \in 0 .. MaxFam
    /\ enable_fp16 = TRUE
    /\ nthreads \in 1 .. 2
    /\ Constructed

ConfigureMat32 == ConfigureOnce("F32", DataAlphas)

RunRows == \E t \in Threads : DispatchRows(t)

NextMat32 == ConfigureMat32 \/ RunRows \/ TileStep

SpecMat32 == InitMat32 /\ [][NextMat32]_vars

AllReturned == \A t \in Threads : t < nthreads => res[t] = "ok"

\* C2: on the wide matrix path every stored element (i, j) of the output,
\* found at i * row stride + j, holds alpha * sum over k < K of A[i][k] * B[k][j],
\* and once all workers have returned every element was stored exactly once.
C2_MatrixTileIsAlphaTimesProduct ==
    \A i \in 0 .. dimR - 1 : \A j \in 0 .. dimN - 1 :
        /\ stores[i * OutStride + j] > 0
              => outMem[i * OutStride + j] = _alpha * RefDot(i, j, dimK)
        /\ AllReturned => stores[i * OutStride + j] = 1

\* two row tiles and two column tiles, run by two workers, K = 5, alpha 2
C2_Witness ==
    /\ AllReturned /\ Body = "matrix_f32" /\ nthreads = 2
    /\ dimR = 5 /\ dimK = 5 /\ dimN = 17 /\ _alpha = 2 * AlphaOne
    /\ stores[4 * OutStride + 16] = 1

----------------------------------------------------------------------------
(* The narrow matrix path alone: A interleaved, B transposed 1x8, built    *)
(* with ARM_COMPUTE_ENABLE_FP16.                                           *)

InitMat16 ==
    /\ layout = "reshaped"
    /\ dimR \in 2 .. MaxMatR
    /\ dimK \in 1 .. MaxMatK
    /\ dimN \in {1} \cup (MaxMatN - 2 .. MaxMatN)
    /\ fam \in 0 .. MaxFam
    /\ enable_fp16 = TRUE
    /\ nthreads \in 1 .. 2
    /\ Constructed

ConfigureMat16 == ConfigureOnce("F16", DataAlphas)

NextMat16 == ConfigureMat16 \/ RunRows \/ TileStep

SpecMat16 == InitMat16 /\ [][NextMat16]_vars

\* C3: on the narrow matrix path every stored element (i, j) of the output
\* holds alpha * sum over all k < K of A[i][k] * B[k][j], also when K is not
\* a multiple of 4.
C3_NarrowTileIsAlphaTimesProduct ==
    \A i \in 0 .. dimR - 1 : \A j \in 0 .. dimN - 1 :
        stores[i * OutStride + j] > 0
            => outMem[i * OutStride + j] = _alpha * RefDot(i, j, dimK)


----------------------------------------------------------------------------
(* The vector path run by the scheduler's workers: worker t of nthreads    *)
(* gets the canonical window split along x, stamped with t and nthreads.   *)

InitPar ==
    /\ layout = "plain"
    /\ dimR = 1
    /\ dimK \in 1 .. MaxParK
    /\ dimN \in 1 .. MaxW
    /\ fam \in 0 .. MaxFam
    /\ enable_fp16 = TRUE
    /\ nthreads \in 1 .. MaxP
    /\ Constructed

RunWorkers == \E t \in Threads : Dispatch(t)

NextPar == ConfigureVec \/ RunWorkers \/ TileStep

SpecPar == InitPar /\ [][NextPar]_vars

\* C4: on the vector path with P workers, at every moment of every
\* interleaving no Output element has been stored by two workers or twice,
\* a stored column j was stored by the worker whose tiles start at 16 t,
\* 16 t + 16 P, ..., and once all workers have returned every column in [0, W)
\* has been stored exactly once.
C4_EveryColumnByExactlyOneWorker ==
    /\ \A o \in DOMAIN stores :
          /\ stores[o] <= 1
          /\ writers[o] \subseteq {(o \div 16) % nthreads}
    /\ AllReturned => \A j \in 0 .. dimN - 1 : stores[j] = 1 /\ writers[j] # {}

\* three tiles over two workers: worker 0 ran tiles 0 and 32, worker 1 tile 16
C4_Witness ==
    /\ AllReturned /\ Body = "vector_f32"
    /\ nthreads = 2 /\ dimN = 40
    /\ writers[0] = {0} /\ writers[16] = {1} /\ writers[39] = {0}

\* what one run over the whole canonical window (thread 0 of 1) leaves at
\* Output offset o
WholeRunOutput(o) ==
    LET lw == VecWinOut(_window)
        x == (o \div 16) * 16
    IN  IF lw.xs <= x /\ x < lw.xe /\ o \in DOMAIN VecTile(_alpha, x)
        THEN VecTile(_alpha, x)[o]
        ELSE -1

----------------------------------------------------------------------------
(* Every path, each alpha: one run over the whole canonical window.        *)

\* largest K of the runs with each alpha
MaxAlphaK == 2

InitAlpha ==
    /\ layout \in {"plain", "reshaped"}
    /\ dimR \in IF layout = "plain" THEN {1} ELSE {2, MaxMatR}
    /\ dimK \in 1 .. MaxAlphaK
    /\ dimN \in {1, MaxMatN}
    /\ fam \in 0 .. MaxFam
    /\ enable_fp16 = TRUE
    /\ nthreads = 1
    /\ Constructed

\* plain tensors are the vector path's, reshaped ones the matrix paths'
ConfigureAlpha ==
    \E dt \in IF layout = "plain" THEN {"F32"} ELSE {"F16", "F32"} :
        ConfigureOnce(dt, Alphas)

NextAlpha == ConfigureAlpha \/ RunWhole \/ TileStep

SpecAlpha == InitAlpha /\ [][NextAlpha]_vars

\* the tiles of the canonical window, by their first column and row
WindowTiles ==
    LET lw == LoopWindow(_window)
    IN  {xy \in (lw.xs .. lw.xe - 1) \X (lw.ys .. lw.ye - 1) :
            /\ (xy[1] - lw.xs) % lw.xstep = 0
            /\ (xy[2] - lw.ys) % lw.ystep = 0}

\* the alpha lanes of the dispatched body: alpha in the tensors' precision
AlphaLanes == IF Body = "matrix_f16" THEN DupF16(_alpha) ELSE DupF32(_alpha)

----------------------------------------------------------------------------
(* The kernel under any caller: configure with any tensors, in any order   *)
(* with run on any window, MaxCalls calls in all.                          *)

\* the wider output width, and the largest K, of the unrestricted caller
MaxGenN == 9
MaxGenK == 2

Init ==
    /\ layout \in {"plain", "reshaped"}
    /\ dimR \in {1, 2}
    /\ dimK \in 1 .. MaxGenK
    /\ dimN \in {1, MaxGenN}
    /\ fam = 0
    /\ enable_fp16 \in BOOLEAN
    /\ nthreads = 1
    /\ Constructed

\* data types of (input0, input1, output): all alike, or one that differs
TypeTriples ==
    {<<dt, dt, dt>> : dt \in DataTypes}
        \cup {<<"F16", "F32", "F16">>, <<"F32", "F32", "F16">>}

\* configure with any of the tensors the caller may hold; dk = 1 is an A
\* whose dimension 0 is one longer than B has rows
ConfigureAny ==
    /\ calls < MaxCalls
    /\ calls' = calls + 1
    /\ \E tt \in TypeTriples, dk \in {0, 1}, a \in DataAlphas :
           Configure(InfoA(tt[1], dk), InfoB(tt[2]), InfoO(tt[3]), a)

\* a window the caller builds over the Output, in tiles of 16 x 4
ProbeWindow == CalculateMaxWindow(InfoO("F32"), 16, 4)

\* the windows a caller passes to run: the kernel's own, one built over the
\* Output, and one that reaches a tile beyond it
CandidateWindows ==
    {_window, ProbeWindow, [ProbeWindow EXCEPT !.xe = @ + 16]}

RunAny ==
    /\ calls < MaxCalls
    /\ calls' = calls + 1
    /\ \E w \in CandidateWindows : RunEnter(0, w)

Next == ConfigureAny \/ RunAny \/ TileStep

Spec == Init /\ [][Next]_vars


\* the Output offsets of a tile of gx columns by gy rows at (x, y)
TileOffsets(x, y, gx, gy) ==
    {(y + r) * OutStride + x + c : r \in 0 .. gy - 1, c \in 0 .. gx - 1}

\* the offsets the next iteration of thread t's window loop stores to
NextTileOffsets(t) ==
    DOMAIN TileStores(_alpha, thr[t].w, thr[t].x, thr[t].y)

\* C7 as stated: a configured kernel of a listed combination has window
\* steps (16, 1) for one row and wide, (32, 4) for more rows and narrow,
\* (16, 4) for more rows and wide, and each iteration of the dispatched body
\* stores that many columns in each of that many rows.
C7_GeometryIsTheRuleTable ==
    (_output # Null /\ (_output.d1 = 1 => _input0.dt = "F32")) =>
        \E gx \in {IF _output.d1 > 1 /\ _input0.dt = "F16" THEN 32 ELSE 16} :
        \E gy \in {IF _output.d1 = 1 THEN 1 ELSE 4} :
            /\ _window.xstep = gx /\ _window.ystep = gy
            /\ \A t \in Threads :
                   thr[t].pc = "loop" =>
                       NextTileOffsets(t) = TileOffsets(thr[t].x, thr[t].y, gx, gy)

\* C7 amended: the narrow geometry is (8, 4); the canonical window covers
\* the Output in whole tiles of these steps, and each iteration of the
\* dispatched body stores that many columns in each of that many rows.
C7_NarrowGeometryIsEightByFour ==
    (_output # Null /\ (_output.d1 = 1 => _input0.dt = "F32")) =>
        \E gx \in {IF _output.d1 > 1 /\ _input0.dt = "F16" THEN 8 ELSE 16} :
        \E gy \in {IF _output.d1 = 1 THEN 1 ELSE 4} :
            /\ _window.xstep = gx /\ _window.ystep = gy
            /\ _window.xs = 0 /\ _window.xe = ((_output.d0 + gx - 1) \div gx) * gx
            /\ _window.ys = 0 /\ _window.ye = ((_output.d1 + gy - 1) \div gy) * gy
            /\ \A t \in Threads :
                   thr[t].pc = "loop" =>
                       NextTileOffsets(t) = TileOffsets(thr[t].x, thr[t].y, gx, gy)

\* a narrow run about to store its second tile, 8 columns on from the first
C7_Witness ==
    /\ thr[0].pc = "loop" /\ Body = "matrix_f16" /\ _output.d1 > 1
    /\ _window.xstep = 8 /\ thr[0].x = 8
    /\ stores[0] = 1 /\ stores[8] = 0

\* the last configure call was given a one-row Output and narrow tensors
\* that pass the validation
OneRowNarrowConfigure ==
    /\ cfgRes # "none"
    /\ cfgArgs[3].d1 = 1
    /\ cfgArgs[1].dt = "F16" /\ cfgArgs[2].dt = "F16" /\ cfgArgs[3].dt = "F16"
    /\ cfgArgs[1].d0 = cfgArgs[2].d1

\* C8: a configure with a one-row Output and narrow precision fails with
\* UnsupportedDataType, and no kernel body is dispatched by a later run.
C8_OneRowNarrowIsUnsupported ==
    OneRowNarrowConfigure =>
        /\ cfgRes = "UnsupportedDataType"
        /\ \A t \in Threads : thr[t].pc = "idle" /\ res[t] \notin {"running", "ok"}

\* what the code does instead: the configure succeeds with the narrow matrix
\* geometry and a run on a build with FP16 stores a tile of 4 rows
C8_OneRowNarrowRuns ==
    /\ OneRowNarrowConfigure /\ cfgRes = "ok"
    /\ _window.xstep = 8 /\ _window.ystep = 4
    /\ Body = "matrix_f16" /\ res[0] = "ok"
    /\ stores[0] = 1 /\ stores[3 * OutStride + 7] = 1


\* C9: a configure call fails with ConfigurationError exactly when the three
\* tensors are not all F16 or all F32, or the Output has one row (of either
\* type) and A's dimension 0 differs from B's dimension 1; and a call that
\* fails so leaves _input0, _input1, _output, _alpha and the window as they
\* were.
C9_ValidationBeforeAssignment ==
    [][/\ cfgRes' # "none" =>
              ((cfgRes' = "ConfigurationError") <=>
                  ~(/\ cfgArgs'[1].dt \in {"F16", "F32"}
                    /\ cfgArgs'[2].dt = cfgArgs'[1].dt
                    /\ cfgArgs'[3].dt = cfgArgs'[1].dt
                    /\ (cfgArgs'[3].d1 = 1 => cfgArgs'[1].d0 = cfgArgs'[2].d1)))
       /\ cfgRes' = "ConfigurationError" =>
              /\ _input0' = _input0 /\ _input1' = _input1 /\ _output' = _output
              /\ _alpha' = _alpha /\ _window' = _window]_vars

\* a configure of narrow one-row tensors that failed the dimension check
\* after a configure that succeeded: the kernel still holds the earlier
\* tensors and alpha
C9_Witness ==
    /\ cfgRes = "ConfigurationError"
    /\ _output # Null /\ _window # NullWindow
    /\ cfgArgs[4] # _alpha /\ cfgArgs[1] # _input0
    /\ cfgArgs[1].dt = "F16" /\ cfgArgs[2].dt = "F16" /\ cfgArgs[3].dt = "F16"
    /\ cfgArgs[3].d1 = 1 /\ cfgArgs[1].d0 # cfgArgs[2].d1

\* C10: while the kernel has never been successfully configured, every run
\* that was called has failed with UnconfiguredKernelError, whatever its
\* window, no thread is inside a kernel body and nothing was stored to Output.
C10_UnconfiguredRunFails ==
    _window = NullWindow =>
        /\ \A t \in Threads :
               /\ res[t] \in {"none", "UnconfiguredKernelError"}
               /\ thr[t].pc = "idle"
        /\ \A o \in DOMAIN stores : stores[o] = 0 /\ outMem[o] = -1

\* a run that failed so after a configure that was rejected
C10_Witness ==
    /\ res[0] = "UnconfiguredKernelError"
    /\ cfgRes = "ConfigurationError"
    /\ _output = Null /\ _window = NullWindow


\* the window reaches beyond the canonical window, in columns or in rows
NotContained(w) ==
    \/ w.xs < _window.xs \/ w.xe > _window.xe
    \/ w.ys < _window.ys \/ w.ye > _window.ye

\* C11: every run call on a configured kernel with a window that reaches
\* beyond the canonical window fails with InvalidSubwindowError, enters no
\* kernel body, stores nothing to Output and leaves the stored tensors,
\* alpha and canonical window as they were; and a run call with the
\* canonical window made after such a failure does not fail so: it returns
\* or enters its body (NotImplemented only for F16 on a build without it).
C11_InvalidSubwindowFailsFirst ==
    [][\A w \in CandidateWindows :
          (RunEnter(0, w) /\ _window # NullWindow) =>
              /\ NotContained(w) =>
                     /\ res'[0] = "InvalidSubwindowError"
                     /\ thr' = thr /\ outMem' = outMem /\ stores' = stores
                     /\ _input0' = _input0 /\ _input1' = _input1
                     /\ _output' = _output /\ _alpha' = _alpha
                     /\ _window' = _window
              /\ (w = _window /\ res[0] = "InvalidSubwindowError") =>
                     IF _input0.dt = "F16" /\ ~enable_fp16
                     THEN res'[0] = "NotImplemented"
                     ELSE res'[0] \in {"running", "ok"}]_vars

\* a configured kernel whose run has failed on a window, with nothing stored
C11_Witness ==
    /\ res[0] = "InvalidSubwindowError"
    /\ cfgRes = "ok" /\ _window # NullWindow
    /\ \A o \in DOMAIN stores : stores[o] = 0


----------------------------------------------------------------------------
(* Every path run by the scheduler's workers: the vector path's window is  *)
(* split along x, the matrix paths' along y; each worker runs once.        *)

InitFrame ==
    /\ layout \in {"plain", "reshaped"}
    /\ dimR \in IF layout = "plain" THEN {1} ELSE {2, MaxMatR}
    /\ dimK = 1
    /\ dimN \in {1, MaxMatN, MaxW}
    /\ fam = 0
    /\ enable_fp16 = TRUE
    /\ nthreads \in 1 .. MaxP
    /\ Constructed

ConfigureFrame ==
    \E dt \in IF layout = "plain" THEN {"F32"} ELSE {"F16", "F32"} :
        ConfigureOnce(dt, {AlphaOne})

RunSplit ==
    \E t \in Threads : IF layout = "plain" THEN Dispatch(t) ELSE DispatchRows(t)

NextFrame == ConfigureFrame \/ RunSplit \/ TileStep

SpecFrame == InitFrame /\ [][NextFrame]_vars

\* the window argument of worker t's run call
WorkerWindow(t) ==
    IF layout = "plain" THEN SplitWindowX(_window, t, nthreads)
    ELSE SplitWindowY(_window, t, nthreads)

\* Output offset o is at a column and a row of window w
InWindow(o, w) ==
    /\ w.xs <= o % OutStride /\ o % OutStride < w.xe
    /\ w.ys <= o \div OutStride /\ o \div OutStride < w.ye

\* C12 as stated, its part about Output: every Output element a worker's run
\* has stored to lies inside the column and row ranges of the window that
\* run was given, on every path.
C12_WritesOnlyInsideWindow ==
    \A o \in DOMAIN writers : \A t \in writers[o] : InWindow(o, WorkerWindow(t))

\* C12 amended: on the matrix paths every Output element a worker's run has
\* stored to lies inside the window that run was given; on the vector path
\* it lies in row 0 in a tile starting at 16 t + 16 P i, whatever the column
\* range of the window; and once configured, no step of a run changes the
\* stored tensors, alpha or canonical window.
C12_FrameOfRun ==
    [][/\ \A o \in DOMAIN writers' : \A t \in writers'[o] :
              IF _output'.d1 = 1 /\ _input0'.dt = "F32"
              THEN /\ o \div OutStride = 0
                   /\ (o \div 16) % nthreads = t
              ELSE /\ WorkerWindow(t).xs <= o % OutStride
                   /\ o % OutStride < WorkerWindow(t).xe
                   /\ WorkerWindow(t).ys <= o \div OutStride
                   /\ o \div OutStride < WorkerWindow(t).ye
       /\ cfgRes = "ok" =>
              /\ _input0' = _input0 /\ _input1' = _input1 /\ _output' = _output
              /\ _alpha' = _alpha /\ _window' = _window]_vars

\* worker 0 of 2 on the vector path, given columns [0, 16) of a 40-column
\* Output, has stored the tile at column 32
C12_Witness ==
    /\ Body = "vector_f32" /\ nthreads = 2 /\ dimN = 40
    /\ res[0] = "ok"
    /\ WorkerWindow(0).xs = 0 /\ WorkerWindow(0).xe = 16
    /\ writers[32] = {0} /\ writers[39] = {0}


----------------------------------------------------------------------------
(* The column ranges of the vector path's workers.                         *)

\* the range of columns worker t of nthreads iterates
WorkerRange(t) == VecWinOut(SplitWindowX(_window, t, nthreads))

\* C13 as stated: for every width W >= 1 and every worker t of P, the range
\* [16 t, end) of worker t contains at least one tile start.
C13_NoWorkerRangeIsEmpty ==
    cfgRes = "ok" =>
        \A t \in Threads : t < nthreads => WorkerRange(t).xs < WorkerRange(t).xe

\* C13 amended: the range of worker t contains a tile start exactly when
\* 16 t < W; a worker with 16 t >= W has the empty range [16 t, 16 t), its
\* run returns without entering the loop and stores nothing, while a worker
\* with 16 t < W that has returned has stored the tile at column 16 t.
C13_RangeEmptyIffStartNotBelowWidth ==
    cfgRes = "ok" =>
        \A t \in Threads : t < nthreads =>
            /\ (WorkerRange(t).xs < WorkerRange(t).xe) <=> (16 * t < dimN)
            /\ 16 * t >= dimN =>
                   /\ WorkerRange(t).xs = 16 * t /\ WorkerRange(t).xe = 16 * t
                   /\ thr[t].pc = "idle" /\ res[t] \in {"none", "ok"}
                   /\ \A o \in DOMAIN writers : t \notin writers[o]
            /\ (16 * t < dimN /\ res[t] = "ok") => t \in writers[16 * t]

\* 2 workers on a 16-column Output: worker 1 has returned and stored nothing,
\* worker 0 has stored the only tile
C13_Witness ==
    /\ Body = "vector_f32" /\ nthreads = 2 /\ dimN = 16
    /\ res[0] = "ok" /\ res[1] = "ok"
    /\ \A o \in DOMAIN writers : writers[o] = IF o < 16 THEN {0} ELSE {}


----------------------------------------------------------------------------
(* vector_matrix_multiply_f32 applied by each worker to an Output of any   *)
(* width from 0 on, with its thread id and the number of threads.          *)

InitRange ==
    /\ layout = "plain"
    /\ dimR = 1
    /\ dimK \in 1 .. MaxParK
    /\ dimN \in 0 .. MaxW
    /\ fam \in 0 .. MaxFam
    /\ enable_fp16 = TRUE
    /\ nthreads \in 1 .. MaxP
    /\ Constructed

\* the window of worker t: the thread id and the number of threads are all
\* the function reads of its x range
StampedWindow(t) == [_window EXCEPT !.tid = t, !.nth = nthreads]

\* vector_matrix_multiply_f32(input0, input1, output, window, alpha), up to
\* the first iteration of the window loop
VecCall(t) ==
    /\ cfgRes = "ok"
    /\ t < nthreads
    /\ res[t] = "none"
    /\ thr[t].pc = "idle"
    /\ calls' = calls + 1
    /\ IF VecWinOut(StampedWindow(t)).xs >= VecWinOut(StampedWindow(t)).xe
       THEN /\ res' = [res EXCEPT ![t] = "ok"]
            /\ UNCHANGED thr
       ELSE /\ res' = [res EXCEPT ![t] = "running"]
            /\ thr' = [thr EXCEPT ![t] = [pc |-> "loop", w |-> StampedWindow(t),
                                          x |-> VecWinOut(StampedWindow(t)).xs,
                                          y |-> 0]]
    /\ UNCHANGED <<world, kernel, cfgRes, cfgArgs, outMem, writers, stores>>

VecCalls == \E t \in Threads : VecCall(t)

NextRange == ConfigureVec \/ VecCalls \/ TileStep

SpecRange == InitRange /\ [][NextRange]_vars

\* C14: for every W >= 0, P >= 1 and t < P, with start = 16 t and
\* step = 16 P, the end column of worker t is at least W, is a whole number
\* of steps from start and is less than one step beyond W; every tile start
\* the worker iterates is start plus a whole number of steps and is below W,
\* so the body is never run at x = W or beyond; and every tile a worker has
\* stored starts below W.
C14_EndColumnArithmetic ==
    cfgRes = "ok" =>
        \A t \in Threads : t < nthreads =>
            /\ VecWindowEndX(StampedWindow(t)) >= dimN
            /\ (VecWindowEndX(StampedWindow(t)) - 16 * t) % (16 * nthreads) = 0
            /\ VecWindowEndX(StampedWindow(t)) - dimN < 16 * nthreads
            /\ thr[t].pc = "loop" =>
                   /\ thr[t].x < dimN
                   /\ thr[t].x >= 16 * t
                   /\ (thr[t].x - 16 * t) % (16 * nthreads) = 0
            /\ \A o \in DOMAIN writers : t \in writers[o] => (o \div 16) * 16 < dimN

\* 3 workers on a 20-column Output: worker 2, whose start 32 is beyond W
\* (the remainder is taken of -12), has returned; worker 1 is at its tile 16
C14_Witness ==
    /\ nthreads = 3 /\ dimN = 20
    /\ res[2] = "ok" /\ VecWindowEndX(StampedWindow(2)) = 32
    /\ thr[1].pc = "loop" /\ thr[1].x = 16
    /\ VecWindowEndX(StampedWindow(1)) = 64

====
